---- MODULE Spec2Model ----
(***************************************************************************)
(* A model of the Rust LCM client (lcm-rust/lcm/src/lcm.rs): the           *)
(* subscription registry Lcm.subscriptions, the reference-counted          *)
(* LcmSubscription records, the decode-and-invoke closure built by         *)
(* subscribe, the handler_callback trampoline, and publish, handle and     *)
(* handle_timeout.  The native transport behind the ffi calls and the      *)
(* Message codec are not part of lcm.rs; they are modelled from the        *)
(* specification's description of them (sections 3, 4.1 and 6).            *)
(***************************************************************************)
EXTENDS Integers, Sequences, FiniteSets, TLC

\* ------------------------------------------------------------------ bounds
\* Number of subscribe calls a behaviour makes (records ever allocated); the
\* transport hands out as many distinct token addresses.
MaxSubs == 2
\* Messages the transport holds undelivered.
MaxQueue == 1
\* Handles the application holds at a time beyond the one subscribe returned.
MaxClones == 1

\* ptr::null_mut(): the token of a record the transport gave no token to.
Null == 0

RecIds == 1..MaxSubs
Tokens == 1..MaxSubs
Channels == {"X", "Y"}
MsgTypes == {"String", "Int"}
Threads == {"t1", "t2"}

\* ------------------------------------------------------------------- codec
\* Encoded message: [fingerprint: 8 bytes][payload: N bytes].
HashLen == 8

Fingerprint(T) == [i \in 1..HashLen |-> IF T = "String" THEN 83 ELSE 73]

\* The values of each message type that the model publishes ("ping"; 300).
Values(T) == IF T = "String" THEN {<<112, 105, 110, 103>>} ELSE {300}

\* encode(): a string is its length (with the terminator), its bytes and a
\* terminating 0; an integer is two bytes, the high one first.
Encode(T, v) ==
    IF T = "String" THEN <<Len(v) + 1>> \o v \o <<0>> ELSE <<v \div 256, v % 256>>

\* decode(): fails on truncated or malformed field data.
Decode(T, b) ==
    IF T = "String"
    THEN IF Len(b) >= 2 /\ b[1] = Len(b) - 1 /\ b[Len(b)] = 0
         THEN [ok |-> TRUE, val |-> SubSeq(b, 2, Len(b) - 1)]
         ELSE [ok |-> FALSE, val |-> <<>>]
    ELSE IF Len(b) = 2
         THEN [ok |-> TRUE, val |-> b[1] * 256 + b[2]]
         ELSE [ok |-> FALSE, val |-> 0]

encode_with_hash(T, v) == Fingerprint(T) \o Encode(T, v)

decode_with_hash(T, buf) ==
    IF Len(buf) >= HashLen /\ SubSeq(buf, 1, HashLen) = Fingerprint(T)
    THEN Decode(T, SubSeq(buf, HashLen + 1, Len(buf)))
    ELSE [ok |-> FALSE, val |-> <<>>]

\* Buffers no encode() produces: a truncated fingerprint, a string payload
\* shorter than its length field says, and the fingerprint of a type this
\* client does not know.
BadBuffers ==
    { SubSeq(Fingerprint("String"), 1, HashLen - 1),
      Fingerprint("String") \o <<5, 112>>,
      [i \in 1..HashLen |-> 0] \o <<1, 44>> }

\* ------------------------------------------------------------------- state
VARIABLES
    subscriptions,  \* Lcm.subscriptions: the registry, a Vec of Arc<LcmSubscription>
    recs,           \* the LcmSubscription records on the heap, with their strong counts
    handles,        \* Arc clones of each record held by the application
    handlers,       \* transport: the registered (token, channel, user_data) triples
    queue,          \* transport: received messages not yet dispatched
    last,           \* the step that completed last, and what it did
    rejected,       \* records whose registration the transport rejected (null token)
    unsubOk,        \* records passed to an unsubscribe call that returned Ok
    dupUnsub,       \* some record was passed to two unsubscribe calls that returned Ok
    ub,             \* the trampoline has dereferenced a released record
    pc,             \* per thread: the statement a subscribe/unsubscribe call is at
    local,          \* per thread: the locals of the call in progress
    mutex           \* holder of the Mutex around Lcm.subscriptions, or "free"

vars == <<subscriptions, recs, handles, handlers, queue, last, rejected, unsubOk, dupUnsub,
          ub, pc, local, mutex>>

\* A record: the transport token (subscription), the message type M its
\* decode-and-invoke closure (handler) was built for, and the Arc strong count.
\* channel is not a field of LcmSubscription: it notes, for stating
\* properties, the channel the record was subscribed to.
NoRec == [state |-> "unused", subscription |-> Null, handler |-> "", strong |-> 0,
          channel |-> ""]
FreedRec == [state |-> "freed", subscription |-> Null, handler |-> "", strong |-> 0,
             channel |-> ""]
\* A message: channel and bytes; sent records the typed value publish encoded
\* into it (no type and no value for a buffer that did not come from publish).
NoMsg == [channel |-> "", data |-> <<>>, sent |-> [typ |-> "", val |-> {}]]
NoLocal == [rec |-> 0, token |-> Null, result |-> 0]

NoCalls == [r \in RecIds |-> 0]
NoArgs == [r \in RecIds |-> {}]

\* No timeout: the call passed no timeout to the transport.
NoTimeout == {}

\* What a completed call reports: the operation, the status the transport
\* returned, the Result given to the caller, and, for a dispatch, the message
\* taken, how often each record's callback ran, the values it was given, and
\* how many decode failures were logged; timeout holds the Duration a
\* handle_timeout call was given and the milliseconds it passed to the
\* transport.
Outcome(op, rec, status, result, msg, calls, args, logged) ==
    [op |-> op, rec |-> rec, status |-> status, result |-> result, msg |-> msg,
     calls |-> calls, args |-> args, logged |-> logged, timeout |-> NoTimeout]

Plain(op, rec, status, result) ==
    Outcome(op, rec, status, result, NoMsg, NoCalls, NoArgs, 0)

\* No API call has completed since the last step of the environment.
NoCall == Plain("none", 0, 0, "Ok")

Init ==
    /\ subscriptions = <<>>
    /\ recs = [r \in RecIds |-> NoRec]
    /\ handles = [r \in RecIds |-> 0]
    /\ handlers = {}
    /\ queue = <<>>
    /\ last = NoCall
    /\ rejected = {}
    /\ unsubOk = {}
    /\ dupUnsub = FALSE
    /\ ub = FALSE
    /\ pc = [t \in Threads |-> "idle"]
    /\ local = [t \in Threads |-> NoLocal]
    /\ mutex = "free"

\* --------------------------------------------------------------- transport
\* Addresses the transport may return for a new subscription: any that no
\* live registration occupies (an address released by unsubscribe comes back).
FreeTokens(hs) == Tokens \ {h.token : h \in hs}

\* subscribe(handle, channel, trampoline_fn, user_data) -> token; a Null
\* token is a rejected registration and registers nothing.
lcm_subscribe(hs, tok, chan, ud) ==
    IF tok = Null THEN hs
    ELSE hs \cup {[token |-> tok, channel |-> chan, user_data |-> ud]}

\* unsubscribe(handle, token) -> status: 0 when the token was registered.
lcm_unsubscribe_status(hs, tok) == IF \E h \in hs : h.token = tok THEN 0 ELSE -1

lcm_unsubscribe(hs, tok) == {h \in hs : h.token # tok}

\* The registrations a message on a channel is delivered to.
Matching(hs, msg) == {h \in hs : h.channel = msg.channel}

\* ------------------------------------------------------------ code helpers
Range(s) == {s[i] : i \in 1..Len(s)}

\* Dropping one Arc reference: the record is released with the last one.
ArcDrop(rec) == IF rec.strong <= 1 THEN FreedRec ELSE [rec EXCEPT !.strong = @ - 1]

ArcClone(rec) == [rec EXCEPT !.strong = @ + 1]

\* .retain(|sub| sub.subscription != handler.subscription)
Retain(subs, rs, tok) == SelectSeq(subs, LAMBDA r : rs[r].subscription # tok)

\* The registry's references to the entries retain removed are dropped.
ReleaseRemoved(subs, rs, tok) ==
    [r \in RecIds |->
        IF r \in Range(subs) /\ rs[r].subscription = tok THEN ArcDrop(rs[r]) ELSE rs[r]]

\* Mutant: the closure passes the decoder's value to the callback even when
\* the decode failed.
HandlerClosure_CallsOnErr(M, buf) ==
    LET d == decode_with_hash(M, buf)
    IN  [called |-> TRUE, arg |-> d.val, logged |-> ~d.ok]

\* The closure subscribe boxes: decode, then the callback or the error log.
HandlerClosure(M, buf) ==
    LET d == decode_with_hash(M, buf)
    IN  IF d.ok THEN [called |-> TRUE, arg |-> d.val, logged |-> FALSE]
        ELSE [called |-> FALSE, arg |-> d.val, logged |-> TRUE]

\* The trampoline: user_data is the record, whose handler is run on rbuf.
handler_callback(rs, ud, buf) == HandlerClosure(rs[ud].handler, buf)

\* Registrations whose user_data points at a record that is no longer live.
Dangling(hs, rs, msg) == {h \in Matching(hs, msg) : rs[h.user_data].state # "live"}

\* One message handed to every matching registration's trampoline.  junk is
\* what the dereference of a released record does (any callback may run).
DispatchCalls(hs, rs, msg, junk) ==
    [r \in RecIds |->
        junk[r] + Cardinality({h \in Matching(hs, msg) :
            /\ h.user_data = r
            /\ rs[r].state = "live"
            /\ handler_callback(rs, r, msg.data).called})]

DispatchArgs(hs, rs, msg) ==
    [r \in RecIds |->
        IF \E h \in Matching(hs, msg) :
              h.user_data = r /\ rs[r].state = "live"
              /\ handler_callback(rs, r, msg.data).called
        THEN {handler_callback(rs, r, msg.data).arg}
        ELSE {}]

DispatchLogged(hs, rs, msg) ==
    Cardinality({h \in Matching(hs, msg) :
        /\ rs[h.user_data].state = "live"
        /\ handler_callback(rs, h.user_data, msg.data).logged})

JunkChoices(hs, rs, msg) ==
    IF Dangling(hs, rs, msg) = {} THEN {NoCalls} ELSE [RecIds -> 0..1]

\* match result { 0 => Ok(()), _ => Err(..) } of unsubscribe / publish / handle
UnsubscribeResult(status) ==
    IF status = 0 THEN "Ok" ELSE "Err: LCM: Failed to unsubscribe"

\* Mutant: publish drops the transport's status and returns Ok.
PublishResult_AlwaysOk(status) == "Ok"

PublishResult(status) == IF status = 0 THEN "Ok" ELSE "Err: LCM Error"

\* Mutant: handle() returns Ok whatever lcm_handle returned.
HandleResult_AlwaysOk(status) == "Ok"

HandleResult(status) == IF status = 0 THEN "Ok" ELSE "Err: LCM Error"

\* Mutant: only status 0 is told from success; a negative status gives Ok.
HandleTimeoutResult_NonZeroOk(status) ==
    IF status = 0 THEN "Err: LCM Timeout" ELSE "Ok"

\* Mutant: status 0 is taken for success, as handle() takes it.
HandleTimeoutResult_ZeroOk(status) ==
    IF status < 0 THEN "Err: LCM Error" ELSE "Ok"

\* match result.cmp(&0) { Less => Err, Equal => Err(timeout), Greater => Ok }
HandleTimeoutResult(status) ==
    IF status < 0 THEN "Err: LCM Error"
    ELSE IF status = 0 THEN "Err: LCM Timeout"
    ELSE "Ok"

\* i32: the type of the timeout lcm_handle_timeout takes.
MaxI32 == 2147483647
MinI32 == -MaxI32 - 1

\* A 32-bit word is kept as two 16-bit halves, hi and lo.
Half == 65536

\* The Durations handle_timeout is called with: 1.5 s, and 2147484 s, the
\* first whole second that is 2^31 milliseconds or more.
Durations == {[secs |-> 1, nanos |-> 500000000], [secs |-> 2147484, nanos |-> 0]}

\* timeout.as_secs() * 1000: the low 32 bits of the u64 product.
SecsToMillis(secs) ==
    LET lo == (secs % Half) * 1000
        hi == (secs \div Half) * 1000 + lo \div Half
    IN  [hi |-> hi % Half, lo |-> lo % Half]

\* `as i32` of a u64: the low 32 bits, read in two's complement.
AsI32(w) ==
    IF w.hi >= Half \div 2 THEN (w.hi - Half) * Half + w.lo ELSE w.hi * Half + w.lo

\* a + b on i32, for 0 <= b, as a build without overflow checks computes it.
AddI32(a, b) ==
    IF a > MaxI32 - b THEN ((a - MaxI32) + (b - 1)) + MinI32 ELSE a + b

\* (timeout.as_secs() * 1000) as i32 + (timeout.subsec_nanos() / 1000_000) as i32
TimeoutMillis(d) == AddI32(AsI32(SecsToMillis(d.secs)), d.nanos \div 1000000)

\* The timeout of a handle_timeout(d) call.
TimeoutArg(d) == {[secs |-> d.secs, nanos |-> d.nanos, millis |-> TimeoutMillis(d)]}

\* ------------------------------------------------- operations, as whole calls
AllIdle == \A t \in Threads : pc[t] = "idle"

Unused == {r \in RecIds : recs[r].state = "unused"}

\* The record Arc::new allocates next.
NewRec == CHOOSE r \in Unused : \A q \in Unused : r <= q

\* Mutant: a subscribe to a channel that already has a subscription replaces
\* that subscription instead of adding one.
Subscribe_Dedup(chan, M, tok) ==
    /\ AllIdle
    /\ Unused # {}
    /\ tok \in FreeTokens(handlers) \cup {Null}
    /\ LET r == NewRec
           old == {h.user_data : h \in Matching(handlers, [channel |-> chan])}
           kept == SelectSeq(subscriptions, LAMBDA q : q \notin old)
       IN  /\ handlers' = lcm_subscribe(handlers \ Matching(handlers, [channel |-> chan]),
                                        tok, chan, r)
           /\ recs' = [q \in RecIds |->
                         IF q = r THEN [state |-> "live", subscription |-> tok,
                                        handler |-> M, strong |-> 2, channel |-> chan]
                         ELSE IF q \in old /\ q \in Range(subscriptions)
                              THEN ArcDrop(recs[q])
                              ELSE recs[q]]
           /\ subscriptions' = Append(kept, r)
           /\ handles' = [handles EXCEPT ![r] = 1]
           /\ last' = Plain("subscribe", r, tok, "Ok")
           /\ rejected' = IF tok = Null THEN rejected \cup {r} ELSE rejected
    /\ UNCHANGED <<queue, unsubOk, dupUnsub, ub, pc, local, mutex>>

\* subscribe(channel, callback): box the closure for M, Arc::new the record,
\* register the trampoline with the record as user_data, store the token in
\* the record, push a clone to the registry and return the handle.
Subscribe(chan, M, tok) ==
    /\ AllIdle
    /\ Unused # {}
    /\ tok \in FreeTokens(handlers) \cup {Null}
    /\ LET r == NewRec
       IN  /\ handlers' = lcm_subscribe(handlers, tok, chan, r)
           /\ recs' = [recs EXCEPT ![r] = [state |-> "live", subscription |-> tok,
                                           handler |-> M, strong |-> 2,
                                           channel |-> chan]]
           /\ subscriptions' = Append(subscriptions, r)
           /\ handles' = [handles EXCEPT ![r] = 1]
           /\ last' = Plain("subscribe", r, tok, "Ok")
           /\ rejected' = IF tok = Null THEN rejected \cup {r} ELSE rejected
    /\ UNCHANGED <<queue, unsubOk, dupUnsub, ub, pc, local, mutex>>

\* Mutant: unsubscribe forgets the transport and only edits the registry.
Unsubscribe_RegistryOnly(r) ==
    /\ AllIdle
    /\ handles[r] > 0
    /\ LET tok == recs[r].subscription
           released == ReleaseRemoved(subscriptions, recs, tok)
       IN  /\ subscriptions' = Retain(subscriptions, recs, tok)
           /\ recs' = [released EXCEPT ![r] = ArcDrop(released[r])]
           /\ handles' = [handles EXCEPT ![r] = @ - 1]
           /\ last' = Plain("unsubscribe", r, 0, UnsubscribeResult(0))
           /\ unsubOk' = unsubOk \cup {r}
           /\ dupUnsub' = (dupUnsub \/ r \in unsubOk)
    /\ UNCHANGED <<handlers, queue, rejected, ub, pc, local, mutex>>

\* unsubscribe(handler): transport unsubscribe of the handle's token, then
\* retain on the registry, then the result; the handle passed in is dropped.
Unsubscribe(r) ==
    /\ AllIdle
    /\ handles[r] > 0
    /\ LET tok == recs[r].subscription
           result == lcm_unsubscribe_status(handlers, tok)
           released == ReleaseRemoved(subscriptions, recs, tok)
       IN  /\ handlers' = lcm_unsubscribe(handlers, tok)
           /\ subscriptions' = Retain(subscriptions, recs, tok)
           /\ recs' = [released EXCEPT ![r] = ArcDrop(released[r])]
           /\ handles' = [handles EXCEPT ![r] = @ - 1]
           /\ last' = Plain("unsubscribe", r, result, UnsubscribeResult(result))
           /\ unsubOk' = IF result = 0 THEN unsubOk \cup {r} ELSE unsubOk
           /\ dupUnsub' = (dupUnsub \/ (result = 0 /\ r \in unsubOk))
    /\ UNCHANGED <<queue, rejected, ub, pc, local, mutex>>

\* Mutant: publish sends encode() without the fingerprint.
Publish_NoHash(chan, M, v, status) ==
    /\ status \in {0, -1}
    /\ status = 0 => Len(queue) < MaxQueue
    /\ queue' = IF status = 0
                THEN Append(queue, [channel |-> chan, data |-> Encode(M, v),
                                    sent |-> [typ |-> M, val |-> {v}]])
                ELSE queue
    /\ last' = Plain("publish", 0, status, PublishResult(status))
    /\ UNCHANGED <<subscriptions, recs, handles, handlers, rejected, unsubOk, dupUnsub, ub,
                   pc, local, mutex>>

\* publish(channel, message): encode_with_hash, then the transport publish,
\* which queues the buffer for this client's own dispatch when it accepts it.
Publish(chan, M, v, status) ==
    /\ status \in {0, -1}
    /\ status = 0 => Len(queue) < MaxQueue
    /\ queue' = IF status = 0
                THEN Append(queue, [channel |-> chan, data |-> encode_with_hash(M, v),
                                    sent |-> [typ |-> M, val |-> {v}]])
                ELSE queue
    /\ last' = Plain("publish", 0, status, PublishResult(status))
    /\ UNCHANGED <<subscriptions, recs, handles, handlers, rejected, unsubOk, dupUnsub, ub,
                   pc, local, mutex>>

\* Another process puts a buffer no encode() produced on a channel.
Inject(chan, buf) ==
    /\ buf \in BadBuffers
    /\ Len(queue) < MaxQueue
    /\ queue' = Append(queue, [channel |-> chan, data |-> buf,
                                sent |-> [typ |-> "", val |-> {}]])
    /\ last' = NoCall
    /\ UNCHANGED <<subscriptions, recs, handles, handlers, rejected, unsubOk, dupUnsub,
                   ub, pc, local, mutex>>

\* The transport takes the next message and calls the trampoline of every
\* registration on its channel; the call op, which passed it the timeout ms,
\* is then given `status`.
Trampolines(op, ms, status, result) ==
    /\ queue # <<>>
    /\ LET msg == Head(queue)
       IN  /\ queue' = Tail(queue)
           /\ ub' = (ub \/ Dangling(handlers, recs, msg) # {})
           /\ \E junk \in JunkChoices(handlers, recs, msg) :
                last' = [Outcome(op, 0, status, result, msg,
                                 DispatchCalls(handlers, recs, msg, junk),
                                 DispatchArgs(handlers, recs, msg),
                                 DispatchLogged(handlers, recs, msg))
                         EXCEPT !.timeout = ms]

\* A handle or handle_timeout call whose transport call dispatches a message.
Dispatch(op, ms, status, result) ==
    /\ Trampolines(op, ms, status, result)
    /\ UNCHANGED <<subscriptions, recs, handles, handlers, rejected, unsubOk, dupUnsub,
                   pc, local, mutex>>

\* The transport call returns `status` without having taken a message.
NoDispatch(op, ms, status, result) ==
    /\ last' = [Plain(op, 0, status, result) EXCEPT !.timeout = ms]
    /\ UNCHANGED <<subscriptions, recs, handles, handlers, queue, rejected, unsubOk, dupUnsub,
                   ub, pc, local, mutex>>

\* handle(): lcm_handle blocks for one message and dispatches it (status 0),
\* or fails (status -1).
Handle ==
    \/ Dispatch("handle", NoTimeout, 0, HandleResult(0))
    \/ NoDispatch("handle", NoTimeout, -1, HandleResult(-1))

\* handle_timeout(d): lcm_handle_timeout is given d in milliseconds and
\* dispatches one message (status > 0), times out with none taken (status 0),
\* or fails (status < 0).
HandleTimeout(d) ==
    LET ms == TimeoutArg(d)
    IN  \/ \E status \in {1, 2} :
              Dispatch("handle_timeout", ms, status, HandleTimeoutResult(status))
        \/ /\ queue = <<>>
           /\ NoDispatch("handle_timeout", ms, 0, HandleTimeoutResult(0))
        \/ \E status \in {-1, -2} :
              NoDispatch("handle_timeout", ms, status, HandleTimeoutResult(status))

\* The handles held beyond the first of each record, as (record, n) pairs.
ExtraHandles == {p \in RecIds \X (1..(MaxClones + 1)) : p[2] < handles[p[1]]}

\* The application clones a handle it holds (Arc::clone).
CloneHandle(r) ==
    /\ handles[r] > 0
    /\ Cardinality(ExtraHandles) < MaxClones
    /\ handles' = [handles EXCEPT ![r] = @ + 1]
    /\ recs' = [recs EXCEPT ![r] = ArcClone(@)]
    /\ last' = NoCall
    /\ UNCHANGED <<subscriptions, handlers, queue, rejected, unsubOk, dupUnsub, ub,
                   pc, local, mutex>>

\* The application drops a handle it holds.
DropHandle(r) ==
    /\ handles[r] > 0
    /\ handles' = [handles EXCEPT ![r] = @ - 1]
    /\ recs' = [recs EXCEPT ![r] = ArcDrop(@)]
    /\ last' = NoCall
    /\ UNCHANGED <<subscriptions, handlers, queue, rejected, unsubOk, dupUnsub, ub,
                   pc, local, mutex>>

DoSubscribe == \E chan \in Channels, M \in MsgTypes, tok \in Tokens \cup {Null} :
                  Subscribe(chan, M, tok)
DoUnsubscribe == \E r \in RecIds : Unsubscribe(r)
DoPublish == \E chan \in Channels, M \in MsgTypes, status \in {0, -1} :
                \E v \in Values(M) : Publish(chan, M, v, status)
DoInject == \E chan \in Channels, buf \in BadBuffers : Inject(chan, buf)
DoCloneHandle == \E r \in RecIds : CloneHandle(r)
DoDropHandle == \E r \in RecIds : DropHandle(r)
DoHandleTimeout == \E d \in Durations : HandleTimeout(d)

Next ==
    \/ DoSubscribe
    \/ DoUnsubscribe
    \/ DoPublish
    \/ DoInject
    \/ Handle
    \/ DoHandleTimeout
    \/ DoCloneHandle
    \/ DoDropHandle

Spec == Init /\ [][Next]_vars

\* ------------------------------------------------- callbacks that panic
\* Spec is the client with callbacks that return.  A callback may panic
\* instead: the closure (line 79) and handler_callback (lines 213-222) have no
\* catch_unwind, so the panic leaves the extern "C" trampoline.  What follows
\* depends on the toolchain: the process is aborted, or the unwinding goes on
\* through the transport's frames (undefined behaviour) and out of handle().

\* The trampolines of the registrations in hs that run their callback on msg.
Invoking(hs, rs, msg) ==
    {h \in Matching(hs, msg) :
        rs[h.user_data].state = "live" /\ handler_callback(rs, h.user_data, msg.data).called}

\* A dispatch in which the callback of registration h panics; `before` are
\* the registrations the transport served before it reached h.
PanicDispatch(op, ms, h, before, outcome) ==
    /\ queue # <<>>
    /\ h \in Invoking(handlers, recs, Head(queue))
    /\ before \subseteq Matching(handlers, Head(queue)) \ {h}
    /\ outcome \in {"Abort", "Unwind"}
    /\ LET msg == Head(queue)
           served == before \cup {h}
       IN  /\ queue' = Tail(queue)
           /\ last' = [Outcome(op, h.user_data, 0, outcome, msg,
                                DispatchCalls(served, recs, msg, NoCalls),
                                DispatchArgs(served, recs, msg),
                                DispatchLogged(served, recs, msg))
                        EXCEPT !.timeout = ms]
    /\ UNCHANGED <<subscriptions, recs, handles, handlers, rejected, unsubOk, dupUnsub, ub,
                   pc, local, mutex>>

HandlePanic ==
    \E h \in handlers, before \in SUBSET handlers, outcome \in {"Abort", "Unwind"} :
        \/ PanicDispatch("handle", NoTimeout, h, before, outcome)
        \/ \E d \in Durations :
              PanicDispatch("handle_timeout", TimeoutArg(d), h, before, outcome)

\* The process has not been aborted.
Alive == last.result # "Abort"

PanicNext ==
    \/ Alive /\ Next
    \/ Alive /\ HandlePanic

PanicSpec == Init /\ [][PanicNext]_vars

\* ------------------------------------- subscribe and unsubscribe, by statement
\* Several threads share one Lcm (it is Sync); each is inside at most one call.
\* lcm_subscribe, lcm_unsubscribe and a dispatch are each one step: the
\* transport serialises them under its own lock.

\* subscribe, lines 69-96: the closure is boxed, the record allocated with a
\* null token, and the trampoline registered with the record as user_data.
SubRegister(t, chan, M, tok) ==
    /\ pc[t] = "idle"
    /\ Unused # {}
    /\ tok \in FreeTokens(handlers) \cup {Null}
    /\ LET r == NewRec
       IN  /\ handlers' = lcm_subscribe(handlers, tok, chan, r)
           /\ recs' = [recs EXCEPT ![r] = [state |-> "live", subscription |-> Null,
                                           handler |-> M, strong |-> 1,
                                           channel |-> chan]]
           /\ local' = [local EXCEPT ![t] = [rec |-> r, token |-> tok, result |-> 0]]
           /\ rejected' = IF tok = Null THEN rejected \cup {r} ELSE rejected
    /\ pc' = [pc EXCEPT ![t] = "sub_store"]
    /\ UNCHANGED <<subscriptions, handles, queue, last, unsubOk, dupUnsub, ub, mutex>>

\* subscribe, lines 98-99: the token is stored in the record, which is cloned.
SubStore(t) ==
    /\ pc[t] = "sub_store"
    /\ recs' = [recs EXCEPT ![local[t].rec] =
                    ArcClone([@ EXCEPT !.subscription = local[t].token])]
    /\ pc' = [pc EXCEPT ![t] = "sub_lock"]
    /\ UNCHANGED <<subscriptions, handles, handlers, queue, last, rejected, unsubOk, dupUnsub,
                   ub, local, mutex>>

\* Mutant: subscribe takes the registry without waiting for the lock.
SubLock_NoWait(t) ==
    /\ pc[t] = "sub_lock"
    /\ mutex' = t
    /\ pc' = [pc EXCEPT ![t] = "sub_push"]
    /\ UNCHANGED <<subscriptions, recs, handles, handlers, queue, last, rejected, unsubOk,
                   dupUnsub, ub, local>>

\* subscribe, line 100: self.subscriptions.lock()
SubLock(t) ==
    /\ pc[t] = "sub_lock"
    /\ mutex = "free"
    /\ mutex' = t
    /\ pc' = [pc EXCEPT ![t] = "sub_push"]
    /\ UNCHANGED <<subscriptions, recs, handles, handlers, queue, last, rejected, unsubOk,
                   dupUnsub, ub, local>>

\* subscribe, lines 100-102: push, the guard is dropped, the handle returned.
SubPush(t) ==
    /\ pc[t] = "sub_push"
    /\ mutex = t
    /\ subscriptions' = Append(subscriptions, local[t].rec)
    /\ mutex' = "free"
    /\ handles' = [handles EXCEPT ![local[t].rec] = 1]
    /\ last' = Plain("subscribe", local[t].rec, local[t].token, "Ok")
    /\ pc' = [pc EXCEPT ![t] = "idle"]
    /\ local' = [local EXCEPT ![t] = NoLocal]
    /\ UNCHANGED <<recs, handlers, queue, rejected, unsubOk, dupUnsub, ub>>

\* Mutant: the registry entry is removed first and the transport is asked
\* afterwards (here: not before the lock is taken).
UnsubFfi_RetainFirst(t, r) ==
    /\ pc[t] = "idle"
    /\ handles[r] > 0
    /\ mutex = "free"
    /\ handles' = [handles EXCEPT ![r] = @ - 1]
    /\ LET tok == recs[r].subscription
       IN  /\ local' = [local EXCEPT ![t] =
                           [rec |-> r, token |-> tok,
                            result |-> lcm_unsubscribe_status(handlers, tok)]]
           /\ subscriptions' = Retain(subscriptions, recs, tok)
           /\ recs' = ReleaseRemoved(subscriptions, recs, tok)
    /\ pc' = [pc EXCEPT ![t] = "unsub_lock"]
    /\ UNCHANGED <<handlers, queue, last, rejected, unsubOk, dupUnsub, ub, mutex>>

\* unsubscribe, line 117: the handle moves into the call and its token goes
\* to lcm_unsubscribe.
UnsubFfi(t, r) ==
    /\ pc[t] = "idle"
    /\ handles[r] > 0
    /\ handles' = [handles EXCEPT ![r] = @ - 1]
    /\ LET tok == recs[r].subscription
       IN  /\ local' = [local EXCEPT ![t] =
                           [rec |-> r, token |-> tok,
                            result |-> lcm_unsubscribe_status(handlers, tok)]]
           /\ handlers' = lcm_unsubscribe(handlers, tok)
    /\ pc' = [pc EXCEPT ![t] = "unsub_lock"]
    /\ UNCHANGED <<subscriptions, recs, queue, last, rejected, unsubOk, dupUnsub, ub, mutex>>

\* unsubscribe, line 119: self.subscriptions.lock()
UnsubLock(t) ==
    /\ pc[t] = "unsub_lock"
    /\ mutex = "free"
    /\ mutex' = t
    /\ pc' = [pc EXCEPT ![t] = "unsub_retain"]
    /\ UNCHANGED <<subscriptions, recs, handles, handlers, queue, last, rejected, unsubOk,
                   dupUnsub, ub, local>>

\* unsubscribe, lines 119-120: retain, then the guard is dropped.
UnsubRetain(t) ==
    /\ pc[t] = "unsub_retain"
    /\ mutex = t
    /\ subscriptions' = Retain(subscriptions, recs, local[t].token)
    /\ recs' = ReleaseRemoved(subscriptions, recs, local[t].token)
    /\ mutex' = "free"
    /\ pc' = [pc EXCEPT ![t] = "unsub_return"]
    /\ UNCHANGED <<handles, handlers, queue, last, rejected, unsubOk, dupUnsub, ub, local>>

\* unsubscribe, lines 122-126: the result is matched and the handle dropped.
UnsubReturn(t) ==
    /\ pc[t] = "unsub_return"
    /\ LET r == local[t].rec
           result == local[t].result
       IN  /\ recs' = [recs EXCEPT ![r] = ArcDrop(@)]
           /\ last' = Plain("unsubscribe", r, result, UnsubscribeResult(result))
           /\ unsubOk' = IF result = 0 THEN unsubOk \cup {r} ELSE unsubOk
           /\ dupUnsub' = (dupUnsub \/ (result = 0 /\ r \in unsubOk))
    /\ pc' = [pc EXCEPT ![t] = "idle"]
    /\ local' = [local EXCEPT ![t] = NoLocal]
    /\ UNCHANGED <<subscriptions, handles, handlers, queue, rejected, ub, mutex>>

\* Mutant: handle() holds the registry lock while the callbacks run.
HandleEnter_Locked(t) ==
    /\ pc[t] = "idle"
    /\ mutex = "free"
    /\ mutex' = t
    /\ Trampolines("handle", NoTimeout, 0, HandleResult(0))
    /\ pc' = [pc EXCEPT ![t] = "callback"]
    /\ UNCHANGED <<subscriptions, recs, handles, handlers, rejected, unsubOk, dupUnsub, local>>

\* handle(), line 165: lcm_handle takes a message and calls the trampolines,
\* which run the callbacks on the calling thread.  The registry is not used.
HandleEnter(t) ==
    /\ pc[t] = "idle"
    /\ Trampolines("handle", NoTimeout, 0, HandleResult(0))
    /\ pc' = [pc EXCEPT ![t] = "callback"]
    /\ UNCHANGED <<subscriptions, recs, handles, handlers, rejected, unsubOk, dupUnsub, local,
                   mutex>>

\* handle(), lines 166-169: the callbacks have returned, lcm_handle returns 0
\* and handle() the result.
HandleReturn(t) ==
    /\ pc[t] = "callback"
    /\ pc' = [pc EXCEPT ![t] = "idle"]
    /\ UNCHANGED <<subscriptions, recs, handles, handlers, queue, last, rejected, unsubOk,
                   dupUnsub, ub, local, mutex>>

\* handle(): lcm_handle fails without having taken a message.
HandleFail(t) ==
    /\ pc[t] = "idle"
    /\ NoDispatch("handle", NoTimeout, -1, HandleResult(-1))

StepSubRegister == \E t \in Threads, chan \in Channels, M \in MsgTypes,
                      tok \in Tokens \cup {Null} : SubRegister(t, chan, M, tok)
StepSubStore == \E t \in Threads : SubStore(t)
StepSubLock == \E t \in Threads : SubLock(t)
StepSubPush == \E t \in Threads : SubPush(t)
StepUnsubFfi == \E t \in Threads, r \in RecIds : UnsubFfi(t, r)
StepUnsubLock == \E t \in Threads : UnsubLock(t)
StepUnsubRetain == \E t \in Threads : UnsubRetain(t)
StepUnsubReturn == \E t \in Threads : UnsubReturn(t)
StepHandleEnter == \E t \in Threads : HandleEnter(t)
StepHandleReturn == \E t \in Threads : HandleReturn(t)
StepHandleFail == \E t \in Threads : HandleFail(t)

ConcNext ==
    \/ StepSubRegister
    \/ StepSubStore
    \/ StepSubLock
    \/ StepSubPush
    \/ StepUnsubFfi
    \/ StepUnsubLock
    \/ StepUnsubRetain
    \/ StepUnsubReturn
    \/ StepHandleEnter
    \/ StepHandleReturn
    \/ StepHandleFail
    \/ DoPublish
    \/ DoDropHandle

ConcSpec == Init /\ [][ConcNext]_vars

\* ------------------------------------------------------------- properties
DispatchOps == {"handle", "handle_timeout"}

\* The last call was a handle or handle_timeout that took a message.
Dispatched == last.op \in DispatchOps /\ last.msg # NoMsg

\* The registrations the last dispatched message was delivered to.
Delivered == Matching(handlers, last.msg)

\* The record's closure decodes the buffer.
Decodes(r, buf) == decode_with_hash(recs[r].handler, buf).ok

\* C1: once unsubscribe(h) has returned Ok, no handle() or handle_timeout()
\* call runs h's callback, whatever arrives on h's channel.
C1_NoDispatchAfterUnsubscribe ==
    last.op \in DispatchOps => \A r \in unsubOk : last.calls[r] = 0

\* A message that h's closure decodes, on h's channel, was dispatched after
\* unsubscribe(h) returned Ok (a clone of the handle keeps the record).
C1_Witness ==
    /\ Dispatched
    /\ \E r \in unsubOk :
          /\ recs[r].state = "live"
          /\ last.msg.channel = recs[r].channel
          /\ Decodes(r, last.msg.data)

\* C2: with N successful subscribe calls and M unsubscribe calls that
\* returned Ok, each on another handle, the registry holds N - M
\* subscriptions; N counts the subscribe calls that returned a handle or, in
\* the other reading, those whose registration the transport accepted.
C2_CountInvariant ==
    (AllIdle /\ ~dupUnsub) =>
        \/ Len(subscriptions) = Cardinality(RecIds \ Unused) - Cardinality(unsubOk)
        \/ Len(subscriptions) =
              Cardinality((RecIds \ Unused) \ rejected) - Cardinality(unsubOk)

\* C3: a subscription whose closure cannot decode the dispatched message does
\* not get its callback run; the failure is logged once per such subscription
\* and the dispatching call returns Ok.
C3_BadPayloadResilience ==
    Dispatched =>
        /\ \A h \in Delivered :
              ~Decodes(h.user_data, last.msg.data) =>
                  last.calls[h.user_data] = 0 /\ last.result = "Ok"
        /\ last.logged =
              Cardinality({h \in Delivered : ~Decodes(h.user_data, last.msg.data)})

\* handle() took a buffer no encode() produced while a subscription was
\* registered on its channel.
C3_Witness ==
    /\ last.op = "handle"
    /\ last.msg.data \in BadBuffers
    /\ Delivered # {}
    /\ last.logged > 0

\* C4: a handle() that dispatches a message published as value m of type T
\* runs the callback of every subscription for T on its channel exactly once,
\* with m.
C4_EndToEndDelivery ==
    (last.op = "handle" /\ last.result = "Ok") =>
        \A h \in Delivered :
            recs[h.user_data].handler = last.msg.sent.typ =>
                /\ last.calls[h.user_data] = 1
                /\ last.args[h.user_data] = last.msg.sent.val

\* handle() delivered the published text "ping" to a subscription for text.
C4_Witness ==
    /\ last.op = "handle"
    /\ last.msg.sent.typ = "String"
    /\ last.msg.sent.val = {<<112, 105, 110, 103>>}
    /\ \E h \in Delivered :
          /\ recs[h.user_data].handler = "String"
          /\ last.args[h.user_data] = {<<112, 105, 110, 103>>}

\* A subscribe to a channel that already has a subscription adds one registry
\* entry and one registration and leaves the earlier ones in place.
C5_SubscribeAdds ==
    \A chan \in Channels, M \in MsgTypes, tok \in Tokens :
        (Subscribe(chan, M, tok) /\ Matching(handlers, [channel |-> chan]) # {}) =>
            /\ Len(subscriptions') = Len(subscriptions) + 1
            /\ SubSeq(subscriptions', 1, Len(subscriptions)) = subscriptions
            /\ handlers \subseteq handlers'
            /\ Cardinality(handlers') = Cardinality(handlers) + 1

\* Two subscriptions on the channel of a dispatched message are two records,
\* both in the registry, and each one that takes the message's type had its
\* callback run exactly once.
C5_BothFire ==
    (Dispatched /\ last.result = "Ok") =>
        \A h1 \in Delivered, h2 \in Delivered :
            h1 # h2 =>
                /\ h1.user_data # h2.user_data
                /\ {h1.user_data, h2.user_data} \subseteq Range(subscriptions)
                /\ \A h \in {h1, h2} :
                      recs[h.user_data].handler = last.msg.sent.typ =>
                          last.calls[h.user_data] = 1

\* C5: subscribing one channel twice gives two independent subscriptions, and
\* one published message runs each of the two callbacks exactly once.
C5_TwoSubscriptionsBothFire == [][C5_SubscribeAdds]_vars /\ []C5_BothFire

\* One published message ran the callbacks of two subscriptions on its channel.
C5_Witness ==
    /\ Dispatched
    /\ Cardinality(Delivered) = 2
    /\ \A h \in Delivered : last.calls[h.user_data] = 1

\* C6: handle_timeout gives an error for a status below 0, the timeout error
\* for status 0 and Ok for a status above 0; when it gives the timeout error
\* no message was taken and no callback ran.
C6_HandleTimeoutStatus ==
    last.op = "handle_timeout" =>
        /\ last.status < 0 => last.result = "Err: LCM Error"
        /\ last.status = 0 => last.result = "Err: LCM Timeout"
        /\ last.status > 0 => last.result = "Ok"
        /\ last.result = "Err: LCM Timeout" =>
              /\ last.msg = NoMsg
              /\ \A r \in RecIds : last.calls[r] = 0
              /\ last.logged = 0

\* handle_timeout timed out while a subscription was registered.
C6_Witness ==
    /\ last.op = "handle_timeout"
    /\ last.status = 0
    /\ last.result = "Err: LCM Timeout"
    /\ handlers # {}

\* C7: an unsubscribe whose token the transport rejects returns an error and
\* leaves the registry with the entries it had.
C7_RejectedKeepsRegistry ==
    [][\A r \in RecIds :
          (Unsubscribe(r) /\ lcm_unsubscribe_status(handlers, recs[r].subscription) # 0)
              => (last'.result # "Ok" /\ subscriptions' = subscriptions)]_vars

\* C8: no two entries of the registry carry the same transport token.
C8_TokenUniqueness ==
    \A i \in DOMAIN subscriptions, j \in DOMAIN subscriptions :
        i # j => recs[subscriptions[i]].subscription # recs[subscriptions[j]].subscription

\* The records the transport would hand to the trampoline.
Registered == {h.user_data : h \in handlers}

HeldByCall(r) == \E t \in Threads : pc[t] # "idle" /\ local[t].rec = r

\* C10: every record the transport has registered is live and held by the
\* registry or by a handle; a released record has no registry entry and no
\* handle.
C10_RecordLifetime ==
    /\ \A r \in Registered :
          /\ recs[r].state = "live"
          /\ r \in Range(subscriptions) \/ handles[r] > 0 \/ HeldByCall(r)
    /\ \A r \in RecIds :
          recs[r].state = "freed" =>
              r \notin Range(subscriptions) /\ handles[r] = 0 /\ ~HeldByCall(r)

\* The last dispatch ended in a callback that panicked.
Panicked == last.result \in {"Abort", "Unwind"}

\* C11: a decode error or a panic of a user callback ends at the trampoline
\* as a logged failure: it does not leave the trampoline, and the handle() or
\* handle_timeout() call that dispatched the message returns normally.
C11_TrampolineContainment ==
    (last.op \in DispatchOps /\ last.msg # NoMsg) => (~Panicked /\ last.result = "Ok")

\* The statements between lock() and the drop of the guard.
Critical == {"sub_push", "unsub_retain"}

\* C12: the registry lock is not held while a callback runs: the thread whose
\* handle() is running callbacks does not hold it, the lock is held only by a
\* thread that is at its registry insert or removal, and that thread can
\* always do it and release the lock.
C12_LockNotHeldInCallback ==
    /\ \A t \in Threads : pc[t] = "callback" => mutex # t
    /\ \A t \in Threads : mutex = t => pc[t] \in Critical
    /\ \A t \in Threads : mutex = t => ENABLED (SubPush(t) \/ UnsubRetain(t))

\* While one thread's handle() runs a callback, the other thread has taken
\* the lock for its subscribe or unsubscribe.
C12_Witness ==
    \E t \in Threads, u \in Threads :
        /\ pc[t] = "callback"
        /\ \E r \in RecIds : last.calls[r] > 0
        /\ pc[u] \in Critical
        /\ mutex = u

\* The callbacks the last call ran, over all records.
RECURSIVE CallsUpTo(_)
CallsUpTo(n) == IF n = 0 THEN 0 ELSE last.calls[n] + CallsUpTo(n - 1)
CallbackRuns == CallsUpTo(MaxSubs)

\* The trampoline invocations of the last call: each one decodes once and
\* then runs its callback or logs the decode failure.
TrampolineRuns == CallbackRuns + last.logged

\* C13 as claimed: a handle() that returns Ok has taken one message and driven
\* exactly one trampoline invocation, whatever subscriptions are registered; a
\* non-zero status makes it return an error.
C13_OneTrampolinePerHandle ==
    last.op = "handle" =>
        /\ last.result = "Ok" => (last.msg # NoMsg /\ TrampolineRuns = 1)
        /\ last.status # 0 => last.result # "Ok"

\* C13 as the code has it: a handle() that returns Ok has taken one message
\* and driven one trampoline invocation for each registration on the message's
\* channel (none, one or several), each with one decode and at most one
\* callback; a non-zero status makes it return an error, with no message taken.
C13_OneTrampolinePerRegistration ==
    last.op = "handle" =>
        /\ last.result = "Ok" =>
              /\ last.msg # NoMsg
              /\ TrampolineRuns = Cardinality(Delivered)
              /\ \A h \in Delivered : last.calls[h.user_data] <= 1
              /\ \A r \in RecIds \ {h.user_data : h \in Delivered} : last.calls[r] = 0
        /\ last.status # 0 => (last.result # "Ok" /\ last.msg = NoMsg)

\* One handle() drove two trampolines: one ran its callback, the other logged
\* a decode failure.
C13_Witness ==
    /\ last.op = "handle"
    /\ last.result = "Ok"
    /\ Cardinality(Delivered) = 2
    /\ CallbackRuns = 1
    /\ last.logged = 1

\* C14 as claimed: a handle_timeout that returns Ok has dispatched exactly one
\* message to a callback; every outcome is that, a timeout error or an
\* internal error.
C14_SuccessMeansCallback ==
    last.op = "handle_timeout" =>
        \/ last.result = "Ok" /\ last.msg # NoMsg /\ CallbackRuns >= 1
        \/ last.result = "Err: LCM Timeout"
        \/ last.result = "Err: LCM Error"

\* C14 as the code has it: a handle_timeout that returns Ok has taken exactly
\* one message and handed it to the trampoline of every registration on its
\* channel; a callback ran for each of them whose closure decodes it, which
\* may be none.  Every other outcome is a timeout error or an internal error,
\* with no message taken and no callback run.
C14_SuccessMeansMessage ==
    last.op = "handle_timeout" =>
        \/ /\ last.result = "Ok"
           /\ last.msg # NoMsg
           /\ TrampolineRuns = Cardinality(Delivered)
           /\ \A h \in Delivered :
                 last.calls[h.user_data] =
                     IF Decodes(h.user_data, last.msg.data) THEN 1 ELSE 0
        \/ /\ last.result \in {"Err: LCM Timeout", "Err: LCM Error"}
           /\ last.msg = NoMsg
           /\ TrampolineRuns = 0

\* handle_timeout returned Ok for a message that the one subscription on its
\* channel could not decode: no callback ran.
C14_Witness ==
    /\ last.op = "handle_timeout"
    /\ last.result = "Ok"
    /\ Cardinality(Delivered) = 1
    /\ last.logged = 1
    /\ CallbackRuns = 0

\* A publish call with the given transport status takes this step.
PublishStep(status) ==
    \E chan \in Channels, M \in MsgTypes : \E v \in Values(M) : Publish(chan, M, v, status)

\* C15: publish returns Ok exactly when the transport's publish status is 0
\* and an error otherwise, and in both cases leaves the registry, the records
\* and the transport's registrations as they were, whatever subscribe,
\* unsubscribe or handle calls other threads are in the middle of.
C15_PublishFrame ==
    [][\A status \in {0, -1} :
          PublishStep(status) =>
              /\ (last'.result = "Ok") <=> (status = 0)
              /\ subscriptions' = subscriptions
              /\ handlers' = handlers
              /\ recs' = recs
              /\ mutex' = mutex /\ pc' = pc]_vars

\* A publish has returned an error while one thread was inside subscribe or
\* unsubscribe and another was running callbacks, with a subscription
\* registered.
C15_Witness ==
    /\ last.op = "publish"
    /\ last.result = "Err: LCM Error"
    /\ handlers # {}
    /\ subscriptions # <<>>
    /\ \E t \in Threads, u \in Threads :
          /\ pc[t] \in {"sub_store", "sub_lock", "sub_push", "unsub_lock", "unsub_retain"}
          /\ pc[u] = "callback"

\* At most one thread is inside a registry insert or removal, and it is the
\* holder of the lock.
C16_OneInside ==
    /\ \A t \in Threads : pc[t] \in Critical => mutex = t
    /\ \A t \in Threads, u \in Threads : (pc[t] \in Critical /\ pc[u] \in Critical) => t = u

\* Every change of the registry is the whole insert or the whole removal of
\* the thread that holds the lock, applied to the registry as the last
\* mutation left it, and releases the lock.
C16_WholeMutation ==
    subscriptions' # subscriptions =>
        \E t \in Threads :
            /\ mutex = t /\ mutex' = "free"
            /\ pc[t] \in Critical /\ pc'[t] \notin Critical
            /\ pc[t] = "sub_push" => subscriptions' = Append(subscriptions, local[t].rec)
            /\ pc[t] = "unsub_retain" =>
                  subscriptions' = Retain(subscriptions, recs, local[t].token)

\* A thread that leaves its insert or removal has left its effect in the
\* registry: the pushed record is listed, the removed token is not.
C16_NoneLost ==
    \A t \in Threads :
        /\ (pc[t] = "sub_push" /\ pc'[t] # "sub_push") =>
              /\ local[t].rec \in Range(subscriptions')
              /\ Len(subscriptions') = Len(subscriptions) + 1
        /\ (pc[t] = "unsub_retain" /\ pc'[t] # "unsub_retain") =>
              \A r \in Range(subscriptions') : recs[r].subscription # local[t].token

\* C16: the registry's mutations are mutually exclusive: at most one thread
\* is inside an insert or removal, every insert and removal takes effect, and
\* the registry only ever changes by one whole insert or removal.
C16_MutualExclusion ==
    []C16_OneInside /\ [][C16_WholeMutation /\ C16_NoneLost]_vars

\* One thread is inside its registry mutation while the other waits for the
\* lock, the registry holding an entry already.
C16_Witness ==
    \E t \in Threads, u \in Threads :
        /\ pc[t] \in Critical
        /\ mutex = t
        /\ pc[u] \in {"sub_lock", "unsub_lock"}
        /\ subscriptions # <<>>

\* C17: a subscribe whose registration the transport rejects (no valid token)
\* reports the failure to its caller, and the registry has no entry for a
\* subscription the transport does not know.
C17_RejectedSubscribeSurfaced ==
    /\ (last.op = "subscribe" /\ last.status = Null) => last.result # "Ok"
    /\ \A r \in Range(subscriptions) : r \notin rejected

\* C18: unsubscribe(h), for a handle h whose subscription the transport gave
\* a token, affects only h: every other subscription that was in the registry
\* is still in it after the call, and every other subscription that was
\* registered with the transport still is.
C18_UnsubscribeOnlyOwn ==
    [][\A r \in RecIds :
          (Unsubscribe(r) /\ recs[r].subscription # Null) =>
              \A q \in RecIds \ {r} :
                  /\ q \in Range(subscriptions) => q \in Range(subscriptions')
                  /\ q \in Registered => q \in Registered']_vars

\* C19: with subscribe on one thread and handle on another, a dispatch runs
\* the callback only of a subscription that is stored in the registry with
\* its transport token assigned: none is run for a record between its
\* registration with the transport and the return of subscribe.
C19_NoDispatchBeforeStored ==
    [][\A t \in Threads :
          (HandleEnter(t) /\ Dangling(handlers, recs, Head(queue)) = {}) =>
              \A r \in RecIds :
                  last'.calls[r] > 0 =>
                      /\ r \in Range(subscriptions)
                      /\ recs[r].subscription # Null
                      /\ \A u \in Threads :
                            pc[u] \in {"sub_store", "sub_lock", "sub_push"} =>
                                local[u].rec # r]_vars

\* The whole number of milliseconds in d, secs * 1000 + nanos / 10^6, as a
\* number written in base 2^16: hi * 2^16 + lo.
WholeMillis(d) ==
    LET lo == (d.secs % Half) * 1000 + d.nanos \div 1000000
    IN  [hi |-> (d.secs \div Half) * 1000 + lo \div Half, lo |-> lo % Half]

\* C20: the timeout handle_timeout passes to the transport is never negative
\* and is the whole number of milliseconds in the Duration it was given, also
\* for a Duration of 2^31 milliseconds or more.
C20_TimeoutIsWholeMillis ==
    last.op = "handle_timeout" =>
        \A a \in last.timeout :
            /\ a.millis >= 0
            /\ a.millis \div Half = WholeMillis(a).hi
            /\ a.millis % Half = WholeMillis(a).lo
====
